---- MODULE Spec2Model ----
(***************************************************************************)
(* Model of the ledger gateway and transaction builder of the lending      *)
(* platform (src/app/services/web3_service.py).                            *)
(*                                                                         *)
(* Every method of Web3Service is an operator from an execution context m  *)
(* (the object's fields w3 and contract, the environment's script for the  *)
(* call, and the log of sleeps, initialisation attempts and RPC calls) to  *)
(* a result [m, kind, val] with kind "return" or "raise".  An action runs  *)
(* one whole method call and stores its outcome in the variable last.      *)
(*                                                                         *)
(* The environment of one call is: the number of initialisation attempts   *)
(* that fail before one succeeds (initFails) with the place of the failure *)
(* (initKind), a script rpc of outcomes of the successive RPC calls (calls *)
(* beyond the script succeed), and the ledger's answers.                   *)
(*                                                                         *)
(* The methods are modelled for every value of the fields the class can    *)
(* produce, including the ones a failed _initialize leaves behind: the     *)
(* lazy-initialisation guards of the class exist for those states.         *)
(***************************************************************************)
EXTENDS Integers, Sequences, FiniteSets, TLC

(* ---------------------------- bounds ---------------------------------- *)
MaxRetries   == 4    \* retry_on_failure is applied with max_retries in 0..MaxRetries
MaxDelay     == 2    \* ... and delay in 1..MaxDelay
MaxInitFails == 9    \* initialisation attempts that fail before one succeeds
MaxRpcScript == 4    \* length of the scripted RPC outcomes
MaxAmount    == 3    \* amounts, deposits, debts and balances range over 0..MaxAmount
MaxAssets    == 2    \* rows of the assets table
MaxScans     == 2    \* successive risk scans
MaxPositions == 2    \* rows of the positions table

(* ------------------------- program constants -------------------------- *)
DefaultMaxRetries == 3
DefaultDelay      == 1
BpsDenominator    == 10000
WithdrawGas       == 300000

(* ------------------------------ values -------------------------------- *)
NoneVal  == [t |-> "None"]
TrueVal  == [t |-> "bool", b |-> TRUE]
FalseVal == [t |-> "bool", b |-> FALSE]
EmptyList == [t |-> "list", items |-> <<>>]

\* an exception object: its type, its message, the message of the exception
\* it was built from, and the call at which it was created (its identity)
Err(type, msg, cause, at) ==
  [t |-> "error", type |-> type, msg |-> msg, cause |-> cause, at |-> at]

Return(m, v) == [m |-> m, kind |-> "return", val |-> v]
Raise(m, e)  == [m |-> m, kind |-> "raise",  val |-> e]

\* amounts as they arrive: an integer, or a string that is not a number
IntAmt(n) == [kind |-> "int", v |-> n]
BadAmt    == [kind |-> "str", v |-> 0]

(* ------------------------------ inputs -------------------------------- *)
ValidAddresses == {"0xA1"}
Addresses      == ValidAddresses \cup {"xyz"}
NativeSymbol   == "ETH"
LedgerAssets   == {"ETH", "USDC"}
Symbols        == LedgerAssets \cup {"DOGE", ""}
Amounts        == {IntAmt(n) : n \in -1..MaxAmount} \cup {BadAmt}
CollateralFactors == {5000, 7500}
InitKinds      == {"RuntimeError", "ConnectionError"}
MissingModes   == {"revert", "empty"}
RpcScripts     == UNION {[1..n -> BOOLEAN] : n \in 0..MaxRpcScript}
\* every RPC call fails until the script ends (what a retried call can observe)
FailScripts    == {[i \in 1..n |-> FALSE] : n \in 0..MaxRpcScript}
\* the first failure is at call n (what a call without retry can observe)
FirstFailScripts == {<<>>} \cup {[i \in 1..n |-> i < n] : n \in 1..MaxRpcScript}

NoArgs == [address |-> "", symbol |-> "", amount |-> IntAmt(0),
           max_retries |-> DefaultMaxRetries, delay |-> DefaultDelay]

NoLedger == [deposited |-> 0, borrowed |-> 0, balance |-> 0,
             collateral_factor |-> 7500, missing |-> "revert"]

VARIABLES w3, contract, last

\* the database (assets, committed volatility records, cached positions), the
\* ORM session, the scan in progress, and the results of the risk engine
VARIABLES assets, store, session, scan, positions, report, calc

\* the scheduled job in progress
VARIABLES job

vars == <<w3, contract, last, assets, store, session, scan, positions, report, calc,
          job>>

(* ------------------------- execution context -------------------------- *)
Ctx(initFails, initKind, rpc, ledger) ==
  [w3 |-> w3, contract |-> contract,
   initFails |-> initFails, initKind |-> initKind, rpc |-> rpc, ledger |-> ledger,
   sleeps |-> <<>>, initCalls |-> 0, rpcLog |-> <<>>, funcCalls |-> 0]

\* time.sleep(d)
Sleep(m, d) == [m EXCEPT !.sleeps = Append(@, d)]

\* one RPC round trip (contract.functions.X(...).call(), w3.eth.X(...)):
\* it fails when the environment's script says so
RpcCall(m, name, answer) ==
  LET idx == Len(m.rpcLog) + 1
      ok  == IF idx <= Len(m.rpc) THEN m.rpc[idx] ELSE TRUE
      m2  == [m EXCEPT !.rpcLog = Append(@, name)]
  IN IF ok THEN Return(m2, answer)
     ELSE Raise(m2, Err("RpcError", name, "", idx))

(* ------------------------------ ledger -------------------------------- *)
\* getAssetDetails(symbol) of the lending contract
LedgerAssetDetails(m, symbol) ==
  IF symbol \in LedgerAssets
  THEN RpcCall(m, "getAssetDetails",
               [t |-> "details",
                tuple |-> <<"token:" \o symbol, 0, 0, m.ledger.collateral_factor>>])
  ELSE IF m.ledger.missing = "empty"
       THEN RpcCall(m, "getAssetDetails", EmptyList)
       ELSE LET r == RpcCall(m, "getAssetDetails", NoneVal)
            IN IF r.kind = "raise" THEN r
               ELSE Raise(r.m, Err("ContractLogicError", "execution reverted", "",
                                   Len(r.m.rpcLog)))

\* getUserPosition(address, symbol) of the lending contract
LedgerUserPosition(m, address, symbol) ==
  RpcCall(m, "getUserPosition",
          [t |-> "position", tuple |-> <<m.ledger.deposited, m.ledger.borrowed, 0>>])

\* balanceOf(account) of the asset's token contract
TokenBalanceOf(m, address) ==
  RpcCall(m, "balanceOf", [t |-> "int", v |-> m.ledger.balance])

\* truthiness of a returned value (Python's `not x`)
Falsy(v) ==
  \/ v.t = "None"
  \/ v.t = "list" /\ v.items = <<>>
  \/ v.t = "bool" /\ ~v.b

(* --------------------- wrapped functions and retry -------------------- *)
\* variant: the wrapper sleeps after every failure, the last one included
ShouldSleep_always(attempt, max_retries) == TRUE

\* whether the wrapper sleeps after the failure of iteration `attempt`
ShouldSleep(attempt, max_retries) == attempt < max_retries - 1

\* variant: a constant delay instead of a growing one
Backoff_constant(delay, attempt) == delay

\* the duration of that sleep
Backoff(delay, attempt) == delay * (attempt + 1)

RECURSIVE wrapper(_, _, _, _, _, _, _)
RECURSIVE Call(_, _, _)

\* the loop of retry_on_failure's wrapper from iteration `attempt` on, with
\* last_error as the earlier iterations left it
wrapper(func, args, m, max_retries, delay, attempt, last_error) ==
  LET Except(r) ==
        IF r.kind = "return" THEN r
        ELSE wrapper(func, args,
                     IF ShouldSleep(attempt, max_retries)
                     THEN Sleep(r.m, Backoff(delay, attempt))
                     ELSE r.m,
                     max_retries, delay, attempt + 1, r.val)
  IN IF attempt >= max_retries
     THEN IF last_error.t = "None"
          THEN Raise(m, Err("TypeError", "exceptions must derive from BaseException", "", 0))
          ELSE Raise(m, last_error)
     ELSE Except(Call(func, args, m))

\* retry_on_failure(max_retries, delay)(func) called with args from context m
retry_on_failure(func, args, m, max_retries, delay) ==
  wrapper(func, args, m, max_retries, delay, 0, NoneVal)

\* Web3Service._initialize, undecorated
initialize_body(m) ==
  LET n  == m.initCalls + 1
      m1 == [m EXCEPT !.initCalls = n]
  IN IF n <= m.initFails
     THEN IF m.initKind = "RuntimeError"
          THEN Raise(m1, Err("RuntimeError", "init", "", n))
          ELSE Raise([m1 EXCEPT !.w3 = "Web3"], Err("ConnectionError", "init", "", n))
     ELSE Return([m1 EXCEPT !.w3 = "Web3", !.contract = "Contract"], NoneVal)

\* variant: _initialize without its decorator
_initialize_once(m) == initialize_body(m)

\* @retry_on_failure(max_retries=3, delay=1) def _initialize
_initialize(m) ==
  retry_on_failure("_initialize", NoArgs, m, DefaultMaxRetries, DefaultDelay)

_check_initialized(m) ==
  LET Initialized(r) ==
        IF r.kind = "raise" THEN r
        ELSE IF r.m.w3 = "None" \/ r.m.contract = "None"
             THEN Return(r.m, FalseVal)
             ELSE Return(r.m, TrueVal)
  IN IF m.w3 = "None" \/ m.contract = "None"
     THEN Initialized(_initialize(m))
     ELSE Return(m, TrueVal)

\* one invocation of the function wrapped by the outermost wrapper
Invoked(m) == [m EXCEPT !.funcCalls = @ + 1]

\* the function an arbitrary use of the decorator wraps: one RPC round trip
func_body(m) ==
  RpcCall(Invoked(m), "func", [t |-> "int", v |-> 42])

get_asset_details_body(m, symbol) ==
  LET Checked(c) ==
        IF c.kind = "raise" THEN c
        ELSE IF ~c.val.b THEN Return(c.m, NoneVal)
        ELSE LedgerAssetDetails(c.m, symbol)
  IN Checked(_check_initialized(Invoked(m)))

get_asset_price_body(m, symbol) ==
  LET Checked(c) ==
        IF c.kind = "raise" THEN c
        ELSE IF ~c.val.b THEN Return(c.m, NoneVal)
        ELSE RpcCall(c.m, "getAssetPrice", [t |-> "int", v |-> 100])
  IN Checked(_check_initialized(Invoked(m)))

IsAddress(address) == address \in ValidAddresses

get_user_position_body(m, user_address, symbol) ==
  LET Checked(c) ==
        IF c.kind = "raise" THEN c
        ELSE IF ~c.val.b THEN Return(c.m, NoneVal)
        ELSE IF ~IsAddress(user_address)
             THEN Raise(c.m, Err("ValueError", "to_checksum_address", "", 0))
             ELSE LedgerUserPosition(c.m, user_address, symbol)
  IN Checked(_check_initialized(Invoked(m)))

\* func(*args, **kwargs): one invocation of the wrapped function
Call(func, args, m) ==
  CASE func = "_initialize"       -> initialize_body(m)
    [] func = "get_asset_details" -> get_asset_details_body(m, args.symbol)
    [] func = "get_asset_price"   -> get_asset_price_body(m, args.symbol)
    [] func = "get_user_position" -> get_user_position_body(m, args.address, args.symbol)
    [] OTHER                      -> func_body(m)

get_asset_details(m, symbol) ==
  retry_on_failure("get_asset_details", [NoArgs EXCEPT !.symbol = symbol], m,
                   DefaultMaxRetries, DefaultDelay)

get_asset_price(m, symbol) ==
  retry_on_failure("get_asset_price", [NoArgs EXCEPT !.symbol = symbol], m,
                   DefaultMaxRetries, DefaultDelay)

get_user_position(m, user_address, symbol) ==
  retry_on_failure("get_user_position",
                   [NoArgs EXCEPT !.address = user_address, !.symbol = symbol], m,
                   DefaultMaxRetries, DefaultDelay)

get_all_asset_symbols(m) ==
  LET Checked(c) ==
        IF c.kind = "raise" THEN c
        ELSE IF ~c.val.b THEN Return(c.m, EmptyList)
        ELSE RpcCall(c.m, "getAllAssetSymbols", [t |-> "list", items |-> <<"ETH", "USDC">>])
  IN Checked(_check_initialized(m))

get_current_interest_rate(m, symbol) ==
  LET Checked(c) ==
        IF c.kind = "raise" THEN c
        ELSE IF ~c.val.b THEN Return(c.m, NoneVal)
        ELSE RpcCall(c.m, "getCurrentInterestRate", [t |-> "int", v |-> 500])
  IN Checked(_check_initialized(m))

get_transaction_receipt(m, tx_hash) ==
  LET Checked(c) ==
        IF c.kind = "raise" THEN c
        ELSE IF ~c.val.b THEN Return(c.m, NoneVal)
        ELSE RpcCall(c.m, "get_transaction_receipt", [t |-> "receipt", status |-> 1])
  IN Checked(_check_initialized(m))

validate_address(m, address) ==
  LET IsAddressOf(r) ==
        IF r.kind = "raise" THEN r
        ELSE Return(r.m, IF IsAddress(address) THEN TrueVal ELSE FalseVal)
  IN IsAddressOf(IF m.w3 = "None" THEN _initialize(m) ELSE Return(m, NoneVal))

(* ------------------------ transaction builder ------------------------- *)
\* int(amount)
int(amount) ==
  IF amount.kind = "int"
  THEN [kind |-> "return", val |-> amount.v]
  ELSE [kind |-> "raise", val |-> Err("ValueError", "invalid literal for int()", "", 0)]

\* str(amount) of an amount that int() accepts
str(amount) == ToString(amount.v)

\* contract.encodeABI(fn_name, args=[symbol, amount]): the amount is a uint256
encodeABI(m, fn_name, symbol, amount) ==
  IF amount.kind = "int" /\ amount.v >= 0
  THEN Return(m, [t |-> "bytes", fn |-> fn_name, symbol |-> symbol, amount |-> amount.v])
  ELSE Raise(m, Err("Web3ValidationError", "encodeABI", "", 0))

\* amount = int(amount); amount <= 0; except ValueError
ValidateAmount(m, amount) ==
  LET Parsed(a) ==
        IF a.kind = "raise" \/ a.val <= 0
        THEN Raise(m, Err("ValueError", "Invalid amount", "", 0))
        ELSE Return(m, TrueVal)
  IN Parsed(int(amount))

\* the asset lookup of the validation, with its `except Exception`
ValidateAssetExists(m, symbol) ==
  LET Looked(d) ==
        IF d.kind = "raise"
        THEN Raise(d.m, Err("ValueError", "Failed to validate asset", d.val.msg, d.val.at))
        ELSE IF Falsy(d.val)
             THEN Raise(d.m, Err("ValueError", "Failed to validate asset",
                                 "Asset not found", 0))
             ELSE Return(d.m, TrueVal)
  IN Looked(LedgerAssetDetails(m, symbol))

\* variant: the asset is looked up on the ledger before the amount is checked
_validate_transaction_params_assetfirst(m, address, symbol, amount) ==
  LET Exists(ae) ==
        IF ae.kind = "raise" THEN ae ELSE ValidateAmount(ae.m, amount)
      Address(va) ==
        IF va.kind = "raise" THEN va
        ELSE IF ~va.val.b
             THEN Raise(va.m, Err("ValueError", "Invalid Ethereum address", "", 0))
        ELSE IF symbol = ""
             THEN Raise(va.m, Err("ValueError", "Invalid token symbol", "", 0))
        ELSE Exists(ValidateAssetExists(va.m, symbol))
      Checked(c) ==
        IF c.kind = "raise" THEN c
        ELSE IF ~c.val.b
             THEN Raise(c.m, Err("ValueError", "Web3 service not initialized", "", 0))
        ELSE Address(validate_address(c.m, address))
  IN Checked(_check_initialized(m))

\* each step is named after the call whose result it continues with
_validate_transaction_params(m, address, symbol, amount) ==
  LET Amount(am) ==
        IF am.kind = "raise" THEN am ELSE ValidateAssetExists(am.m, symbol)
      Address(va) ==
        IF va.kind = "raise" THEN va
        ELSE IF ~va.val.b
             THEN Raise(va.m, Err("ValueError", "Invalid Ethereum address", "", 0))
        ELSE IF symbol = ""
             THEN Raise(va.m, Err("ValueError", "Invalid token symbol", "", 0))
        ELSE Amount(ValidateAmount(va.m, amount))
      Checked(c) ==
        IF c.kind = "raise" THEN c
        ELSE IF ~c.val.b
             THEN Raise(c.m, Err("ValueError", "Web3 service not initialized", "", 0))
        ELSE Address(validate_address(c.m, address))
  IN Checked(_check_initialized(m))

\* variant: the comparison of the balance check is reversed
CheckTokenBalance_reversed(m, user_address, symbol, amount) ==
  LET Balance(b) ==
        IF b.kind = "raise" THEN b
        ELSE IF b.val.v > int(amount).val
             THEN Raise(b.m, Err("ValueError", "Insufficient token balance", "", 0))
             ELSE Return(b.m, TrueVal)
  IN IF symbol # NativeSymbol
     THEN Balance(TokenBalanceOf(m, user_address))
     ELSE Return(m, TrueVal)

\* the balance check of deposit and repay (non-native assets only)
CheckTokenBalance(m, user_address, symbol, amount) ==
  LET Balance(b) ==
        IF b.kind = "raise" THEN b
        ELSE IF b.val.v < int(amount).val
             THEN Raise(b.m, Err("ValueError", "Insufficient token balance", "", 0))
             ELSE Return(b.m, TrueVal)
  IN IF symbol # NativeSymbol
     THEN Balance(TokenBalanceOf(m, user_address))
     ELSE Return(m, TrueVal)

\* the payload of deposit and repay
TokenPayload(m, fn_name, symbol, amount) ==
  LET Encoded(e) ==
        IF e.kind = "raise" THEN e
        ELSE Return(e.m, [t |-> "payload",
                          dict |-> [to |-> "contract_address",
                                    data |-> e.val,
                                    value |-> IF symbol = NativeSymbol
                                              THEN str(amount) ELSE "0",
                                    requiresApproval |-> (symbol # NativeSymbol)]])
  IN Encoded(encodeABI(m, fn_name, symbol, IntAmt(int(amount).val)))

create_deposit_transaction(m, user_address, symbol, amount) ==
  LET Balance(b) ==
        IF b.kind = "raise" THEN b ELSE TokenPayload(b.m, "deposit", symbol, amount)
      Details(asset_details) ==
        IF asset_details.kind = "raise" THEN asset_details
        ELSE Balance(CheckTokenBalance(asset_details.m, user_address, symbol, amount))
      Validated(v) ==
        IF v.kind = "raise" THEN v ELSE Details(LedgerAssetDetails(v.m, symbol))
  IN Validated(_validate_transaction_params(m, user_address, symbol, amount))

create_withdraw_transaction(m, user_address, symbol, amount) ==
  LET Encoded(e) ==
        IF e.kind = "raise" THEN e
        ELSE Return(e.m, [t |-> "payload",
                          dict |-> [to |-> "contract_address",
                                    from |-> user_address,
                                    data |-> e.val,
                                    gas |-> WithdrawGas]])
      Checked(c) ==
        IF c.kind = "raise" THEN c
        ELSE IF ~c.val.b THEN Return(c.m, NoneVal)
        ELSE Encoded(encodeABI(c.m, "withdraw", symbol, amount))
  IN Checked(_check_initialized(m))

\* variant: the basis points are not scaled down
max_borrow_unscaled(deposited, collateral_factor) ==
  deposited * collateral_factor

\* (deposited * collateral_factor) // 10000
max_borrow(deposited, collateral_factor) ==
  (deposited * collateral_factor) \div BpsDenominator

\* variant: the debt of the position counts against the bound
create_borrow_transaction_netofdebt(m, user_address, symbol, amount) ==
  LET Encoded(e) ==
        IF e.kind = "raise" THEN e
        ELSE Return(e.m, [t |-> "payload",
                          dict |-> [to |-> "contract_address",
                                    data |-> e.val,
                                    value |-> "0"]])
      Details(position, asset_details) ==
        IF asset_details.kind = "raise" THEN asset_details
        ELSE IF int(amount).val + position.val.tuple[2] > max_borrow(
                  position.val.tuple[1], asset_details.val.tuple[4])
             THEN Raise(asset_details.m,
                        Err("ValueError", "Insufficient collateral for borrow amount", "", 0))
             ELSE Encoded(encodeABI(asset_details.m, "borrow", symbol,
                                    IntAmt(int(amount).val)))
      Position(position) ==
        IF position.kind = "raise" THEN position
        ELSE Details(position, LedgerAssetDetails(position.m, symbol))
      Validated(v) ==
        IF v.kind = "raise" THEN v
        ELSE Position(LedgerUserPosition(v.m, user_address, symbol))
  IN Validated(_validate_transaction_params(m, user_address, symbol, amount))

\* only position[0], the deposited amount, enters the bound
create_borrow_transaction(m, user_address, symbol, amount) ==
  LET Encoded(e) ==
        IF e.kind = "raise" THEN e
        ELSE Return(e.m, [t |-> "payload",
                          dict |-> [to |-> "contract_address",
                                    data |-> e.val,
                                    value |-> "0"]])
      Details(position, asset_details) ==
        IF asset_details.kind = "raise" THEN asset_details
        ELSE IF int(amount).val > max_borrow(position.val.tuple[1],
                                             asset_details.val.tuple[4])
             THEN Raise(asset_details.m,
                        Err("ValueError", "Insufficient collateral for borrow amount", "", 0))
             ELSE Encoded(encodeABI(asset_details.m, "borrow", symbol,
                                    IntAmt(int(amount).val)))
      Position(position) ==
        IF position.kind = "raise" THEN position
        ELSE Details(position, LedgerAssetDetails(position.m, symbol))
      Validated(v) ==
        IF v.kind = "raise" THEN v
        ELSE Position(LedgerUserPosition(v.m, user_address, symbol))
  IN Validated(_validate_transaction_params(m, user_address, symbol, amount))

\* variant: a repayment of exactly the debt is rejected too
ExceedsBorrowed_orequal(amount, borrowed_amount) == amount >= borrowed_amount

\* int(amount) > borrowed_amount
ExceedsBorrowed(amount, borrowed_amount) == amount > borrowed_amount

create_repay_transaction(m, user_address, symbol, amount) ==
  LET Balance(b) ==
        IF b.kind = "raise" THEN b ELSE TokenPayload(b.m, "repay", symbol, amount)
      Position(position) ==
        IF position.kind = "raise" THEN position
        ELSE IF ExceedsBorrowed(int(amount).val, position.val.tuple[2])
             THEN Raise(position.m,
                        Err("ValueError", "Repay amount exceeds borrowed amount", "", 0))
             ELSE Balance(CheckTokenBalance(position.m, user_address, symbol, amount))
      Details(asset_details) ==
        IF asset_details.kind = "raise" THEN asset_details
        ELSE Position(LedgerUserPosition(asset_details.m, user_address, symbol))
      Validated(v) ==
        IF v.kind = "raise" THEN v ELSE Details(LedgerAssetDetails(v.m, symbol))
  IN Validated(_validate_transaction_params(m, user_address, symbol, amount))

(* ------------------------------ actions ------------------------------- *)
Idle == [op |-> "idle", args |-> NoArgs, pre |-> [w3 |-> "None", contract |-> "None"],
         env |-> [initFails |-> 0, initKind |-> "ConnectionError", rpc |-> <<>>,
                  ledger |-> NoLedger],
         kind |-> "return", val |-> NoneVal,
         sleeps |-> <<>>, initCalls |-> 0, rpcLog |-> <<>>, funcCalls |-> 0]

Ready == w3 # "None" /\ contract # "None"

\* the initialisation environments that matter from the current fields, for a
\* call that can make up to maxAttempts initialisation attempts
InitEnvs(maxAttempts) ==
  IF Ready THEN {<<0, "ConnectionError">>}
  ELSE {<<0, "ConnectionError">>} \cup ((1..maxAttempts) \X InitKinds)

\* the call `op(args)` ran from context m and ended as r
Finish(op, args, m, r) ==
  /\ w3' = r.m.w3
  /\ contract' = r.m.contract
  /\ last' = [op |-> op, args |-> args,
              pre |-> [w3 |-> m.w3, contract |-> m.contract],
              env |-> [initFails |-> m.initFails, initKind |-> m.initKind,
                       rpc |-> m.rpc, ledger |-> m.ledger],
              kind |-> r.kind, val |-> r.val,
              sleeps |-> r.m.sleeps, initCalls |-> r.m.initCalls,
              rpcLog |-> r.m.rpcLog, funcCalls |-> r.m.funcCalls]
  /\ UNCHANGED <<assets, store, session, scan, positions, report, calc, job>>

\* Web3Service(...): the fields are reset and _initialize runs
Construct ==
  /\ last = Idle
  /\ \E nf \in 0..MaxInitFails, k \in InitKinds :
       LET m == [Ctx(nf, k, <<>>, NoLedger) EXCEPT !.w3 = "None", !.contract = "None"]
       IN Finish("__init__", NoArgs, m, _initialize(m))

\* the caller takes the result of the call
Respond ==
  /\ last # Idle
  /\ last' = Idle
  /\ UNCHANGED <<w3, contract, assets, store, session, scan, positions, report, calc, job>>

\* retry_on_failure(max_retries, delay) applied to a function and called once
RetryCall ==
  /\ last = Idle
  /\ \E n \in 0..MaxRetries, d \in 1..MaxDelay, rpc \in RpcScripts :
       LET args == [NoArgs EXCEPT !.max_retries = n, !.delay = d]
           m == Ctx(0, "ConnectionError", rpc, NoLedger)
       IN Finish("func", args, m, retry_on_failure("func", args, m, n, d))

\* the read operations of the gateway
ReadOps == {"get_asset_details", "get_asset_price", "get_user_position",
            "get_current_interest_rate", "get_transaction_receipt",
            "get_all_asset_symbols", "validate_address"}

RunRead(op, m, address, symbol) ==
  CASE op = "get_asset_details"         -> get_asset_details(m, symbol)
    [] op = "get_asset_price"           -> get_asset_price(m, symbol)
    [] op = "get_user_position"         -> get_user_position(m, address, symbol)
    [] op = "get_current_interest_rate" -> get_current_interest_rate(m, symbol)
    [] op = "get_transaction_receipt"   -> get_transaction_receipt(m, "0xhash")
    [] op = "get_all_asset_symbols"     -> get_all_asset_symbols(m)
    [] op = "validate_address"          -> validate_address(m, address)

Read ==
  /\ last = Idle
  /\ \E op \in ReadOps, address \in Addresses, symbol \in {"ETH", "DOGE"},
        ie \in InitEnvs(MaxInitFails), rpc \in FailScripts :
       \E mm \in (IF symbol \in LedgerAssets THEN {"revert"} ELSE MissingModes) :
          LET args == [NoArgs EXCEPT !.address = address, !.symbol = symbol]
              m == Ctx(ie[1], ie[2], rpc, [NoLedger EXCEPT !.missing = mm])
          IN Finish(op, args, m, RunRead(op, m, address, symbol))

\* the four transaction builds
BuildOps == {"deposit", "withdraw", "borrow", "repay"}

RunBuild(op, m, address, symbol, amount) ==
  CASE op = "deposit"  -> create_deposit_transaction(m, address, symbol, amount)
    [] op = "withdraw" -> create_withdraw_transaction(m, address, symbol, amount)
    [] op = "borrow"   -> create_borrow_transaction(m, address, symbol, amount)
    [] op = "repay"    -> create_repay_transaction(m, address, symbol, amount)

Intents == [address : Addresses, symbol : Symbols, amount : Amounts]

\* the intent passes the common validation when the ledger answers
Passes(i) ==
  IsAddress(i.address) /\ i.symbol \in LedgerAssets /\ i.amount.kind = "int" /\ i.amount.v > 0

\* One build.  The environment is drawn as far as the call can observe it: the
\* ledger's position and balances are read only for an intent that passes the
\* common validation, and nothing of the ledger is read when the gateway cannot
\* be initialised.
BuildWith(op, ledgers) ==
  /\ last = Idle
  /\ \E ie \in InitEnvs(DefaultMaxRetries), i \in Intents :
       LET initFailed == ~Ready /\ ie[1] >= DefaultMaxRetries
       IN \E ledger \in (IF initFailed THEN {NoLedger}
                         ELSE IF Passes(i) THEN ledgers
                         ELSE {[NoLedger EXCEPT !.missing = mm] : mm \in MissingModes}),
             rpc \in (IF initFailed THEN {<<>>}
                      ELSE IF Passes(i) THEN FirstFailScripts
                      ELSE {<<>>, <<FALSE>>}) :
            LET args == [NoArgs EXCEPT !.address = i.address, !.symbol = i.symbol,
                                       !.amount = i.amount]
                m == Ctx(ie[1], ie[2], rpc, ledger)
            IN Finish(op, args, m, RunBuild(op, m, i.address, i.symbol, i.amount))

Deposit ==
  BuildWith("deposit", {[NoLedger EXCEPT !.balance = bal] : bal \in 0..MaxAmount})

Withdraw ==
  BuildWith("withdraw", {NoLedger})

Borrow ==
  BuildWith("borrow",
            {[NoLedger EXCEPT !.deposited = dep, !.borrowed = bor, !.collateral_factor = cf] :
               dep \in 0..MaxAmount, bor \in 0..MaxAmount, cf \in CollateralFactors})

Repay ==
  BuildWith("repay",
            {[NoLedger EXCEPT !.borrowed = bor, !.balance = bal] :
               bor \in 0..MaxAmount, bal \in 0..MaxAmount})

(* ====================================================================== *)
(*        risk engine (src/app/services/volatility_service.py)            *)
(* ====================================================================== *)
(* --------------------------- Python floats ---------------------------- *)
\* A Python float is an IEEE-754 binary64 number.  A finite non-zero float is
\* s * m * 2^e with a mantissa m of exactly MantissaBits bits; m is held as a
\* little-endian sequence of limbs below LimbBase, as it exceeds the integers
\* of the checker.  Every operation rounds its exact result to the nearest
\* float, ties to the even mantissa.
MantissaBits == 53
LimbBits     == 15
LimbBase     == 2^LimbBits

Float(k, s, m, e) == [k |-> k, s |-> s, m |-> m, e |-> e]
Zero     == Float("zero", 1, <<>>, 0)
NaN      == Float("nan", 1, <<>>, 0)
Inf(s)   == Float("inf", s, <<>>, 0)

Abs(i) == IF i < 0 THEN -i ELSE i
Sign(i) == IF i < 0 THEN -1 ELSE 1

RECURSIVE Trim(_)
Trim(n) == IF n # <<>> /\ n[Len(n)] = 0 THEN Trim(SubSeq(n, 1, Len(n) - 1)) ELSE n

RECURSIVE NatOfInt(_)
NatOfInt(i) == IF i = 0 THEN <<>> ELSE <<i % LimbBase>> \o NatOfInt(i \div LimbBase)

RECURSIVE IntOfNat(_)
IntOfNat(n) == IF n = <<>> THEN 0 ELSE n[1] + LimbBase * IntOfNat(Tail(n))

RECURSIVE BitsOf(_)
BitsOf(i) == IF i = 0 THEN 0 ELSE 1 + BitsOf(i \div 2)

BitLen(n) == IF n = <<>> THEN 0 ELSE LimbBits * (Len(n) - 1) + BitsOf(n[Len(n)])

\* n * i + carry, for 0 <= i <= LimbBase
RECURSIVE MulNat(_,_,_)
MulNat(n, i, carry) ==
  IF n = <<>> THEN NatOfInt(carry)
  ELSE <<(n[1] * i + carry) % LimbBase>>
       \o MulNat(Tail(n), i, (n[1] * i + carry) \div LimbBase)

\* quotient and remainder of the limbs j..1 of n by i, r carried from above
RECURSIVE DivFrom(_,_,_,_)
DivFrom(n, i, j, r) ==
  IF j = 0 THEN [q |-> <<>>, r |-> r]
  ELSE LET Below(d) == [q |-> Append(d.q, (r * LimbBase + n[j]) \div i), r |-> d.r]
       IN Below(DivFrom(n, i, j - 1, (r * LimbBase + n[j]) % i))

\* n divmod i, for 0 < i <= LimbBase
DivNat(n, i) ==
  LET Trimmed(d) == [q |-> Trim(d.q), r |-> d.r]
  IN Trimmed(DivFrom(n, i, Len(n), 0))

\* n * 2^t
RECURSIVE Shl(_,_)
Shl(n, t) ==
  IF t = 0 \/ n = <<>> THEN n
  ELSE IF t >= LimbBits THEN Shl(<<0>> \o n, t - LimbBits)
  ELSE MulNat(n, 2^t, 0)

\* floor(n / 2^t)
RECURSIVE Shr(_,_)
Shr(n, t) ==
  IF t = 0 \/ n = <<>> THEN n
  ELSE IF t >= LimbBits THEN Shr(Tail(n), t - LimbBits)
  ELSE DivNat(n, 2^t).q

\* the float nearest to s * (n + f) * 2^e, where 0 <= f < 1 and sticky says
\* f > 0; n has at most MantissaBits + LimbBits bits, and at least
\* MantissaBits + 1 bits when sticky
RoundNat(s, n, e, sticky) ==
  LET drop == BitLen(n) - MantissaBits
      Carried(q) ==
        IF BitLen(q) > MantissaBits
        THEN Float("fin", s, Shr(q, 1), e + drop + 1)
        ELSE Float("fin", s, q, e + drop)
      Rounded(d) ==
        IF \/ d.r > 2^(drop - 1)
           \/ d.r = 2^(drop - 1) /\ (sticky \/ d.q[1] % 2 = 1)
        THEN Carried(MulNat(d.q, 1, 1))
        ELSE Carried(d.q)
  IN IF n = <<>> THEN Zero
     ELSE IF drop <= 0 THEN Float("fin", s, Shl(n, -drop), e + drop)
     ELSE Rounded(DivNat(n, 2^drop))

\* float(i)
float(i) == RoundNat(Sign(i), NatOfInt(Abs(i)), 0, FALSE)

\* x * i, for a float x and an integer i that float(i) holds exactly
float_mul(x, i) ==
  CASE x.k = "nan" -> NaN
    [] x.k = "inf" -> IF i = 0 THEN NaN ELSE Inf(x.s * Sign(i))
    [] x.k = "zero" -> Zero
    [] OTHER -> RoundNat(x.s * Sign(i), MulNat(x.m, Abs(i), 0), x.e, FALSE)

\* x / i, for a float x and an integer i # 0 that float(i) holds exactly
float_truediv(x, i) ==
  LET Quotient(d) == RoundNat(x.s * Sign(i), d.q, x.e - LimbBits, d.r > 0)
  IN CASE x.k = "nan" -> NaN
       [] x.k = "inf" -> Inf(x.s * Sign(i))
       [] x.k = "zero" -> Zero
       [] OTHER -> Quotient(DivNat(Shl(x.m, LimbBits), Abs(i)))

\* the limbs of a below those of b, both of the same length
RECURSIVE LessNat(_,_)
LessNat(a, b) ==
  IF a = <<>> THEN FALSE
  ELSE IF a[Len(a)] # b[Len(b)] THEN a[Len(a)] < b[Len(b)]
  ELSE LessNat(SubSeq(a, 1, Len(a) - 1), SubSeq(b, 1, Len(b) - 1))

\* x < y, for floats that are not NaN
float_lt(x, y) ==
  LET Rank(z) == IF z.k = "zero" THEN 0 ELSE z.s
      Magnitude(a, b) ==   \* |a| < |b| for finite non-zero or infinite a, b
        IF a.k = "inf" THEN FALSE
        ELSE IF b.k = "inf" THEN TRUE
        ELSE IF a.e # b.e THEN a.e < b.e
        ELSE LessNat(a.m, b.m)
  IN IF Rank(x) # Rank(y) THEN Rank(x) < Rank(y)
     ELSE IF Rank(x) = 0 THEN FALSE
     ELSE IF Rank(x) = 1 THEN Magnitude(x, y)
     ELSE Magnitude(y, x)

\* int(x): truncation toward zero; the failures of int() are results
float_int(x) ==
  CASE x.k = "nan" -> [kind |-> "raise", val |-> "ValueError"]
    [] x.k = "inf" -> [kind |-> "raise", val |-> "OverflowError"]
    [] x.k = "zero" -> [kind |-> "return", val |-> 0]
    [] OTHER -> [kind |-> "return",
                 val |-> x.s * IntOfNat(IF x.e >= 0 THEN Shl(x.m, x.e)
                                        ELSE Shr(x.m, -x.e))]

(* ------------------------- price series, pandas ----------------------- *)
\* get_historical_prices receives either a failure of the HTTP request or a
\* list of daily prices; the frame it builds has one row per price
DataFrame(prices) == [t |-> "DataFrame", price |-> prices]

\* a daily return: the ratio n/d, or the inf and NaN of a division by zero
Ratio(n, d) == [k |-> "num", n |-> n, d |-> d]
NaNReturn   == [k |-> "nan", n |-> 0, d |-> 1]
InfReturn   == [k |-> "inf", n |-> 0, d |-> 1]

\* Series.pct_change(): price[i] / price[i-1] - 1, NaN in the first row
pct_change(price) ==
  [i \in 1..Len(price) |->
     IF i = 1 THEN NaNReturn
     ELSE IF price[i - 1] = 0
          THEN (IF price[i] = 0 THEN NaNReturn ELSE InfReturn)
          ELSE Ratio(price[i] - price[i - 1], price[i - 1])]

\* Series.dropna()
dropna(series) ==
  LET NotNaN(r) == r.k # "nan" IN SelectSeq(series, NotNaN)

RECURSIVE ProductOfDenominators(_)
ProductOfDenominators(series) ==
  IF series = <<>> THEN 1
  ELSE Head(series).d * ProductOfDenominators(Tail(series))

\* the sum of the returns, in units of 1/D
RECURSIVE SumOfReturns(_,_)
SumOfReturns(series, D) ==
  IF series = <<>> THEN 0
  ELSE Head(series).n * (D \div Head(series).d) + SumOfReturns(Tail(series), D)

\* the sum of the squared deviations from the mean, in units of 1/(N*D)^2
RECURSIVE SumOfSquares(_,_,_,_)
SumOfSquares(series, D, N, S) ==
  IF series = <<>> THEN 0
  ELSE (N * Head(series).n * (D \div Head(series).d) - S)
         * (N * Head(series).n * (D \div Head(series).d) - S)
       + SumOfSquares(Tail(series), D, N, S)

\* Series.std(): the sample standard deviation (N - 1 denominator); NaN for
\* fewer than two values and for a series that holds an inf.  The series of the
\* model have a standard deviation that is a multiple of 1/2.
std(series) ==
  LET Root(N, D, SS) ==
        float_truediv(float(CHOOSE h \in 0..4 :
                              h * h * (N * N * D * D * (N - 1)) = 4 * SS), 2)
      Deviations(N, D, S) == Root(N, D, SumOfSquares(series, D, N, S))
      Mean(N, D) == Deviations(N, D, SumOfReturns(series, D))
  IN IF Len(series) < 2 THEN NaN
     ELSE IF \E i \in 1..Len(series) : series[i].k = "inf" THEN NaN
     ELSE Mean(Len(series), ProductOfDenominators(series))

(* --------------------------- VolatilityService ------------------------ *)
PeriodDays == 30

\* an object of the interpreter: None, or an int
PyInt(i) == [t |-> "int", v |-> i]

\* requests.get(...) raised, or answered with the prices
RequestFailed    == [ok |-> FALSE, prices |-> <<>>]
Answer(prices)   == [ok |-> TRUE, prices |-> prices]

get_historical_prices_propagates(response) ==
  IF ~response.ok
  THEN [kind |-> "raise", val |-> "RequestException"]
  ELSE [kind |-> "return", val |-> DataFrame(response.prices)]

get_historical_prices(response) ==
  IF ~response.ok
  THEN [kind |-> "return", val |-> NoneVal]
  ELSE [kind |-> "return", val |-> DataFrame(response.prices)]

\* the result is the int 0 or the float of std(); float() makes a float of both
calculate_volatility(price_data) ==
  IF price_data.t = "None" THEN Zero
  ELSE IF Len(price_data.price) < 2 THEN Zero
  ELSE std(dropna(pct_change(price_data.price)))

\* variant: the failure of int() is not caught
calculate_interest_rate_propagates(asset, volatility) ==
  LET Component(c) ==
        IF c.kind = "raise" THEN c
        ELSE [kind |-> "return", val |-> asset.base_interest_rate + c.val]
  IN IF asset.volatility_multiplier.t = "None"
     THEN [kind |-> "raise", val |-> "TypeError"]
     ELSE Component(float_int(float_truediv(
            float_mul(float_mul(volatility, 10000), asset.volatility_multiplier.v),
            100)))

\* base_interest_rate + int(volatility * 10000 * volatility_multiplier / 100),
\* and base_interest_rate alone when that computation raises
calculate_interest_rate(asset, volatility) ==
  LET Component(c) ==
        IF c.kind = "raise"
        THEN [kind |-> "return", val |-> asset.base_interest_rate]
        ELSE [kind |-> "return", val |-> asset.base_interest_rate + c.val]
  IN IF asset.volatility_multiplier.t = "None"
     THEN [kind |-> "return", val |-> asset.base_interest_rate]
     ELSE Component(float_int(float_truediv(
            float_mul(float_mul(volatility, 10000), asset.volatility_multiplier.v),
            100)))

VolatilityRecord(asset_id, volatility, period_days, effective_interest_rate) ==
  [asset_id |-> asset_id, volatility |-> volatility, period_days |-> period_days,
   effective_interest_rate |-> effective_interest_rate]

(* ------------------------------ database ------------------------------ *)
\* the rows of the assets table, as seed_database.py writes them and as an
\* administrator can leave them: WBTC with a negative multiplier, USDC without
\* a price-series identifier, DAI deactivated
AssetRows ==
  { [symbol |-> "ETH", is_active |-> TRUE, coingecko_id |-> "ethereum",
     base_interest_rate |-> 200, volatility_multiplier |-> PyInt(100),
     collateral_factor |-> 7500],
    [symbol |-> "WBTC", is_active |-> TRUE, coingecko_id |-> "wrapped-bitcoin",
     base_interest_rate |-> 150, volatility_multiplier |-> PyInt(-80),
     collateral_factor |-> 7000],
    [symbol |-> "USDC", is_active |-> TRUE, coingecko_id |-> "",
     base_interest_rate |-> 500, volatility_multiplier |-> PyInt(20),
     collateral_factor |-> 8500],
    [symbol |-> "DAI", is_active |-> FALSE, coingecko_id |-> "dai",
     base_interest_rate |-> 450, volatility_multiplier |-> PyInt(25),
     collateral_factor |-> 8000] }

\* a table of up to MaxAssets rows; symbol is unique, id is the row number
AssetTables ==
  UNION { { t \in [1..n -> AssetRows] :
              \A i, j \in 1..n : i # j => t[i].symbol # t[j].symbol } :
          n \in 0..MaxAssets }

WithId(table) == [i \in 1..Len(table) |-> [id |-> i, row |-> table[i]]]

\* Asset.query.filter_by(is_active=True).all(), narrowed to one id when
\* asset_id is truthy
QueryActiveAssets(table, asset_id) ==
  LET Selected(a) == a.row.is_active /\ (asset_id # 0 => a.id = asset_id)
  IN SelectSeq(WithId(table), Selected)

\* the session of the ORM over the committed table of volatility records
db_session_add_autocommit(db, record) ==
  [store |-> db.store \o db.session \o <<record>>, session |-> <<>>]

db_session_add(db, record) ==
  [store |-> db.store, session |-> Append(db.session, record)]

db_session_commit(db) == [store |-> db.store \o db.session, session |-> <<>>]

db_session_rollback(db) == [store |-> db.store, session |-> <<>>]

(* -------------------- update_asset_volatility (scan) ------------------ *)
\* the price lists the external API answers with during a scan
ScanSeries == { <<3>>, <<2, 3>>, <<2, 2, 3, 6>> }

RateLimitDelay == 1

\* what the scan does towards the outside, in order
FetchEvent    == [e |-> "fetch", seconds |-> 0]
SleepEvent(s) == [e |-> "sleep", seconds |-> s]

NoResult == [kind |-> "none", val |-> 0]

IdleScan == [pc |-> "idle", no |-> 0, asset_id |-> 0, todo |-> <<>>,
             updated_count |-> 0, events |-> <<>>, fetched |-> <<>>,
             emitted |-> <<>>, before |-> <<>>, commit |-> "none",
             result |-> NoResult]

\* the except clause of the scan: rollback, log, re-raise
ScanRaises(error, commit) ==
  /\ scan' = [scan EXCEPT !.pc = "done", !.todo = <<>>, !.commit = commit,
                          !.result = [kind |-> "raise", val |-> error]]
  /\ store' = db_session_rollback([store |-> store, session |-> session]).store
  /\ session' = db_session_rollback([store |-> store, session |-> session]).session

\* the scan is called: the active assets are queried
ScanStart ==
  /\ scan.pc \in {"idle", "done"}
  /\ scan.no < MaxScans
  /\ \E asset_id \in {0, 1} :
       scan' = [IdleScan EXCEPT !.pc = "loop", !.no = scan.no + 1,
                                !.asset_id = asset_id,
                                !.todo = QueryActiveAssets(assets, asset_id),
                                !.before = store]
  /\ UNCHANGED <<w3, contract, last, assets, store, session, positions, report, calc, job>>

\* the asset has no price-series identifier: warning, continue
SkipAsset(asset) ==
  /\ scan' = [scan EXCEPT !.todo = Tail(@),
                          !.fetched = Append(@, [id |-> asset.id, outcome |-> "noid"])]
  /\ UNCHANGED <<store, session>>

\* no price data: warning, continue
SkipFetched(asset) ==
  /\ scan' = [scan EXCEPT !.todo = Tail(@),
                          !.events = Append(@, FetchEvent),
                          !.fetched = Append(@, [id |-> asset.id, outcome |-> "error"])]
  /\ UNCHANGED <<store, session>>

\* the record of the asset is added to the session, and the scan sleeps
EmitRecord(asset, record) ==
  LET Added(db) ==
        /\ store' = db.store
        /\ session' = db.session
  IN /\ Added(db_session_add([store |-> store, session |-> session], record))
     /\ scan' = [scan EXCEPT !.todo = Tail(@),
                             !.updated_count = @ + 1,
                             !.events = @ \o <<FetchEvent, SleepEvent(RateLimitDelay)>>,
                             !.fetched = Append(@, [id |-> asset.id, outcome |-> "ok"]),
                             !.emitted = Append(@, record)]

\* one iteration of the loop over the assets
ScanAsset ==
  /\ scan.pc = "loop"
  /\ scan.todo # <<>>
  /\ LET asset == Head(scan.todo)
         Rated(volatility, interest_rate) ==
           IF interest_rate.kind = "raise"
           THEN ScanRaises(interest_rate.val, "none")
           ELSE EmitRecord(asset, VolatilityRecord(asset.id, volatility, PeriodDays,
                                                   interest_rate.val))
         Measured(volatility) ==
           Rated(volatility, calculate_interest_rate(asset.row, volatility))
         Fetched(price_data) ==
           IF price_data.kind = "raise" THEN ScanRaises(price_data.val, "none")
           ELSE IF price_data.val.t = "None" THEN SkipFetched(asset)
           ELSE Measured(calculate_volatility(price_data.val))
     IN IF asset.row.coingecko_id = ""
        THEN SkipAsset(asset)
        ELSE \E response \in {RequestFailed} \cup {Answer(p) : p \in ScanSeries} :
               Fetched(get_historical_prices(response))
  /\ UNCHANGED <<w3, contract, last, assets, positions, report, calc, job>>

\* db.session.commit() after the loop; a failed commit is rolled back and raised
ScanCommit ==
  /\ scan.pc = "loop"
  /\ scan.todo = <<>>
  /\ \E persisted \in BOOLEAN :
       IF persisted
       THEN /\ store' = db_session_commit([store |-> store, session |-> session]).store
            /\ session' = db_session_commit([store |-> store, session |-> session]).session
            /\ scan' = [scan EXCEPT !.pc = "done", !.commit = "ok",
                          !.result = [kind |-> "return", val |-> scan.updated_count]]
       ELSE ScanRaises("OperationalError", "failed")
  /\ UNCHANGED <<w3, contract, last, assets, positions, report, calc, job>>


(* ----------------------- liquidation candidates ----------------------- *)
\* the rows of the positions table (a cache of the ledger; nothing in the
\* repository writes it), each with the asset and user it refers to
PositionRows ==
  { [user |-> [address |-> u], asset |-> [symbol |-> a[1], collateral_factor |-> a[2]],
     deposited_amount |-> d, borrowed_amount |-> b] :
      u \in {"0xa1"}, a \in {<<"ETH", 7500>>, <<"WBTC", 7000>>},
      d \in {12, 1000}, b \in {0, 7, 500, 625, 800} }

PositionTables ==
  UNION { [1..n -> PositionRows] : n \in 0..MaxPositions }

\* float(deposited_amount) * (collateral_factor / 10000)
collateral_value(position) ==
  float_mul(float_truediv(float(position.row.asset.collateral_factor), 10000),
            position.row.deposited_amount)

\* collateral_value / borrow_value
health_factor(position) ==
  float_truediv(collateral_value(position), position.row.borrowed_amount)

\* the float of the literal 1.2
LiquidationThreshold == float_truediv(float(12), 10)

\* variant: a position at the threshold is reported too
IsCandidate_inclusive(hf) == ~float_lt(LiquidationThreshold, hf)

\* health_factor < 1.2
IsCandidate(hf) == float_lt(hf, LiquidationThreshold)

Candidate(position) ==
  [user_address |-> position.row.user.address,
   asset_symbol |-> position.row.asset.symbol,
   health_factor |-> health_factor(position),
   position_id |-> position.id]

\* Position.query.filter(Position.borrowed_amount > 0).all()
QueryBorrowers(table) ==
  LET Borrowed(p) == p.row.borrowed_amount > 0
  IN SelectSeq(WithId(table), Borrowed)

\* the loop over the queried positions
RECURSIVE liquidation_candidates(_)
liquidation_candidates(queried) ==
  IF queried = <<>> THEN <<>>
  ELSE (IF /\ Head(queried).row.borrowed_amount > 0
           /\ IsCandidate(health_factor(Head(queried)))
        THEN <<Candidate(Head(queried))>> ELSE <<>>)
       \o liquidation_candidates(Tail(queried))

get_liquidation_candidates(table) ==
  [t |-> "list", items |-> liquidation_candidates(QueryBorrowers(table))]

\* the job asks for the report
Liquidation ==
  /\ report.t = "None"
  /\ calc.t = "None"
  /\ report' = get_liquidation_candidates(positions)
  /\ UNCHANGED <<w3, contract, last, assets, store, session, scan, positions, calc, job>>

\* the job has logged the report
ReportLogged ==
  /\ report.t # "None"
  /\ report' = NoneVal
  /\ UNCHANGED <<w3, contract, last, assets, store, session, scan, positions, calc, job>>

(* --------------------------- pure functions --------------------------- *)
\* the price lists calculate_volatility is applied to
PriceSeries ==
  ScanSeries \cup { <<>>, <<2, 0, 3>>, <<0, 0, 0>>, <<3, 0>>, <<2, 2, 2>>, <<1, 1, 2, 6>> }

\* volatilities as ratios p/q; the float is the one the literal p/q denotes
VolatilityRatios == { <<0, 1>>, <<1, 20>>, <<-1, 20>>, <<1, 16384>>, <<1, 2>>, <<1, 1>> }

NonFinite == { NaN, Inf(1), Inf(-1) }

Multipliers == { NoneVal, PyInt(-100), PyInt(20), PyInt(100) }

BaseRates == { 0, 200 }

\* _calculate_health_factor of routes.py: (deposited * collateral_factor) / 10000
\* / borrowed, and inf without a debt
_calculate_health_factor(deposited, borrowed, collateral_factor) ==
  IF borrowed = 0 THEN Inf(1)
  ELSE float_truediv(float_truediv(float(deposited * collateral_factor), 10000),
                     borrowed)

Called(op, args, result) ==
  /\ calc.t = "None"
  /\ report.t = "None"
  /\ positions = <<>>
  /\ calc' = [t |-> "call", op |-> op, args |-> args, result |-> result]
  /\ UNCHANGED <<w3, contract, last, assets, store, session, scan, positions, report, job>>

NoCallArgs == [price_data |-> NoneVal, base_interest_rate |-> 0,
               volatility_multiplier |-> NoneVal, ratio |-> <<0, 1>>,
               volatility |-> Zero, deposited |-> 0, borrowed |-> 0,
               collateral_factor |-> 0]

CalcVolatility ==
  \E price_data \in {NoneVal} \cup {DataFrame(p) : p \in PriceSeries} :
    Called("calculate_volatility", [NoCallArgs EXCEPT !.price_data = price_data],
           [kind |-> "return", val |-> calculate_volatility(price_data)])

CalcInterestRate ==
  \E base \in BaseRates, multiplier \in Multipliers :
    \/ \E ratio \in VolatilityRatios :
         Called("calculate_interest_rate",
                [NoCallArgs EXCEPT !.base_interest_rate = base,
                                   !.volatility_multiplier = multiplier,
                                   !.ratio = ratio,
                                   !.volatility = float_truediv(float(ratio[1]), ratio[2])],
                calculate_interest_rate(
                  [base_interest_rate |-> base, volatility_multiplier |-> multiplier],
                  float_truediv(float(ratio[1]), ratio[2])))
    \/ \E volatility \in NonFinite :
         Called("calculate_interest_rate",
                [NoCallArgs EXCEPT !.base_interest_rate = base,
                                   !.volatility_multiplier = multiplier,
                                   !.volatility = volatility],
                calculate_interest_rate(
                  [base_interest_rate |-> base, volatility_multiplier |-> multiplier],
                  volatility))

CalcHealthFactor ==
  \E p \in PositionRows :
    Called("_calculate_health_factor",
           [NoCallArgs EXCEPT !.deposited = p.deposited_amount,
                              !.borrowed = p.borrowed_amount,
                              !.collateral_factor = p.asset.collateral_factor],
           [kind |-> "return",
            val |-> _calculate_health_factor(p.deposited_amount, p.borrowed_amount,
                                             p.asset.collateral_factor)])

\* the caller takes the result
CalcReturned ==
  /\ calc.t # "None"
  /\ calc' = NoneVal
  /\ UNCHANGED <<w3, contract, last, assets, store, session, scan, positions, report, job>>


(* ------------------ update_volatility_and_rates (job) ----------------- *)
\* the position tables the job runs over: no position, or one position of ETH
JobPositionTables ==
  { t \in PositionTables :
      /\ Len(t) <= 1
      /\ \A i \in 1..Len(t) : t[i].deposited_amount = 1000 /\ t[i].asset.symbol = "ETH" }

\* the job: where it is, the steps it has taken, and how it ended
IdleJob == [pc |-> "idle", no |-> 0, steps |-> <<>>, result |-> NoResult]

JobStep(pc, step) == [job EXCEPT !.pc = pc, !.steps = Append(@, step)]

\* the except clause of the job: log, return False
JobReturnsFalse(step) ==
  [job EXCEPT !.pc = "done", !.steps = Append(@, step),
              !.result = [kind |-> "return", val |-> FALSE]]

\* one run of the script.  app = create_app(), before the try of the job:
\* db.create_all() connects to the database and raises when it cannot
JobStart ==
  /\ job.pc = "idle"
  /\ job.no = 0
  /\ scan.pc \in {"idle", "done"}
  /\ \E connected \in BOOLEAN :
       job' = IF connected
              THEN [IdleJob EXCEPT !.pc = "services", !.no = job.no + 1,
                                   !.steps = <<"create_app">>]
              ELSE [IdleJob EXCEPT !.pc = "done", !.no = job.no + 1,
                                   !.steps = <<"create_app">>,
                                   !.result = [kind |-> "raise",
                                               val |-> "OperationalError"]]
  /\ UNCHANGED <<w3, contract, last, assets, store, session, scan, positions,
                 report, calc>>

\* VolatilityService() and Web3Service(): the gateway initializes itself, and
\* its error ends the job
JobServices ==
  /\ job.pc = "services"
  /\ \E nf \in 0..DefaultMaxRetries, k \in InitKinds :
       LET Constructed(r) ==
             /\ w3' = r.m.w3
             /\ contract' = r.m.contract
             /\ job' = IF r.kind = "raise" THEN JobReturnsFalse("services")
                       ELSE JobStep("scan", "services")
       IN Constructed(_initialize(
            [Ctx(nf, k, <<>>, NoLedger) EXCEPT !.w3 = "None", !.contract = "None"]))
  /\ UNCHANGED <<last, assets, store, session, scan, positions, report, calc>>

\* volatility_service.update_asset_volatility(): the scan over all assets
JobScan ==
  /\ job.pc = "scan"
  /\ scan' = [IdleScan EXCEPT !.pc = "loop", !.no = scan.no + 1,
                              !.todo = QueryActiveAssets(assets, 0),
                              !.before = store]
  /\ job' = JobStep("scanning", "scan")
  /\ UNCHANGED <<w3, contract, last, assets, store, session, positions, report, calc>>

\* the scan has ended: its exception ends the job; otherwise the count is
\* logged and the rates follow when it is positive
JobScanned ==
  /\ job.pc = "scanning"
  /\ scan.pc = "done"
  /\ job' = IF scan.result.kind = "raise" THEN JobReturnsFalse("scan_failed")
            ELSE IF scan.result.val > 0 THEN JobStep("rates", "scanned")
            ELSE JobStep("liquidation", "scanned")
  /\ UNCHANGED <<w3, contract, last, assets, store, session, scan, positions,
                 report, calc>>

\* the queries for the assets and their latest records, and the log of the
\* rates; a query that raises ends the job
JobRates ==
  /\ job.pc = "rates"
  /\ \E queried \in BOOLEAN :
       job' = IF queried THEN JobStep("liquidation", "rates")
              ELSE JobReturnsFalse("rates_failed")
  /\ UNCHANGED <<w3, contract, last, assets, store, session, scan, positions,
                 report, calc>>

\* the liquidation check inside its own try, then return True;
\* get_liquidation_candidates returns [] when its query fails
JobLiquidation ==
  /\ job.pc = "liquidation"
  /\ \E queried \in BOOLEAN :
       report' = IF queried THEN get_liquidation_candidates(positions)
                 ELSE EmptyList
  /\ job' = [job EXCEPT !.pc = "done", !.steps = Append(@, "liquidation"),
                        !.result = [kind |-> "return", val |-> TRUE]]
  /\ UNCHANGED <<w3, contract, last, assets, store, session, scan, positions, calc>>

\* the process of the job has ended
JobExit ==
  /\ job.pc = "done"
  /\ job' = [IdleJob EXCEPT !.no = job.no]
  /\ report' = NoneVal
  /\ UNCHANGED <<w3, contract, last, assets, store, session, scan, positions, calc>>

(* ====================================================================== *)
(*                            specifications                              *)
(* ====================================================================== *)
\* before anything runs: no gateway, an empty database, no scan
GatewayInit ==
  /\ w3 = "None"
  /\ contract = "None"
  /\ last = Idle

Init ==
  /\ GatewayInit
  /\ assets = <<>> /\ store = <<>> /\ session = <<>> /\ scan = IdleScan
  /\ positions = <<>> /\ report = NoneVal /\ calc = NoneVal
  /\ job = IdleJob

\* the gateway and the transaction builder
Next ==
  \/ Construct
  \/ Respond
  \/ RetryCall
  \/ Read
  \/ Deposit
  \/ Withdraw
  \/ Borrow
  \/ Repay

Spec == Init /\ [][Next]_vars

\* the risk scan over a database that holds any table of assets
ScanInit ==
  /\ GatewayInit
  /\ assets \in AssetTables
  /\ store = <<>> /\ session = <<>> /\ scan = IdleScan
  /\ positions = <<>> /\ report = NoneVal /\ calc = NoneVal
  /\ job = IdleJob

ScanNext ==
  \/ ScanStart
  \/ ScanAsset
  \/ ScanCommit

ScanSpec == ScanInit /\ [][ScanNext]_vars

\* the liquidation report and the pure functions of the risk engine, over a
\* database that holds any table of positions
RiskInit ==
  /\ GatewayInit
  /\ assets = <<>>
  /\ store \in {<<>>, <<VolatilityRecord(1, Zero, PeriodDays, 200)>>}
  /\ session = <<>> /\ scan = IdleScan
  /\ positions \in PositionTables
  /\ report = NoneVal /\ calc = NoneVal
  /\ job = IdleJob

RiskNext ==
  \/ Liquidation
  \/ ReportLogged
  \/ CalcVolatility
  \/ CalcInterestRate
  \/ CalcHealthFactor
  \/ CalcReturned

RiskSpec == RiskInit /\ [][RiskNext]_vars

\* the scheduled job over a database that holds any table of assets
JobInit ==
  /\ GatewayInit
  /\ assets \in AssetTables
  /\ store = <<>> /\ session = <<>> /\ scan = IdleScan
  /\ positions \in JobPositionTables
  /\ report = NoneVal /\ calc = NoneVal
  /\ job = IdleJob

JobNext ==
  \/ JobStart
  \/ JobServices
  \/ JobScan
  \/ ScanAsset
  \/ ScanCommit
  \/ JobScanned
  \/ JobRates
  \/ JobLiquidation
  \/ JobExit

JobSpec == JobInit /\ [][JobNext]_vars

(* ====================================================================== *)
(*                               properties                               *)
(* ====================================================================== *)
A == last.args

PreReady == last.pre.w3 # "None" /\ last.pre.contract # "None"

\* the gateway was ready, or became ready within one run of _initialize
InitOK == PreReady \/ last.env.initFails < DefaultMaxRetries

\* none of the RPC calls the operation made failed
Answered ==
  \A i \in 1..Len(last.rpcLog) : i <= Len(last.env.rpc) => last.env.rpc[i]

PositiveInt(amount) == amount.kind = "int" /\ amount.v > 0

\* the intent passes the common validation against the ledger
ValidIntent ==
  IsAddress(A.address) /\ A.symbol \in LedgerAssets /\ PositiveInt(A.amount)

\* the error of the taxonomy an exception of the builder stands for
ErrorClass(e) ==
  IF e.type # "ValueError" THEN e.type
  ELSE CASE e.msg = "Web3 service not initialized"              -> "NotReady"
         [] e.msg = "Invalid Ethereum address"                  -> "InvalidAddress"
         [] e.msg = "Invalid token symbol"                      -> "AssetNotFound"
         [] e.msg = "Failed to validate asset"                  -> "AssetNotFound"
         [] e.msg = "Invalid amount"                            -> "InvalidAmount"
         [] e.msg = "Insufficient token balance"                -> "InsufficientBalance"
         [] e.msg = "Insufficient collateral for borrow amount" -> "InsufficientCollateral"
         [] e.msg = "Repay amount exceeds borrowed amount"      -> "ExcessiveRepay"
         [] OTHER                                               -> "ValueError"

ValidationErrors == {"InvalidAddress", "AssetNotFound", "InvalidAmount",
                     "InsufficientBalance", "InsufficientCollateral", "ExcessiveRepay"}

FailedWith(class) == last.kind = "raise" /\ ErrorClass(last.val) = class

ReturnedPayload == last.kind = "return" /\ last.val.t = "payload"

RetriedOps == {"func", "get_asset_details", "get_asset_price", "get_user_position"}

\* the inputs with which the ledger answers the read operation
AnswerableRead == A.symbol = "ETH" /\ IsAddress(A.address)

(* ------------------------------- C1 ----------------------------------- *)
\* the wrapped function fails on attempts 1 and 2 and would succeed on attempt 3
FailsTwiceThenSucceeds ==
  /\ Len(last.env.rpc) >= 2
  /\ ~last.env.rpc[1]
  /\ ~last.env.rpc[2]
  /\ (Len(last.env.rpc) >= 3 => last.env.rpc[3])

C1_Case ==
  /\ last.op \in RetriedOps
  /\ A.max_retries = 3
  /\ A.delay = 1
  /\ PreReady
  /\ (last.op # "func" => AnswerableRead)
  /\ FailsTwiceThenSucceeds

\* C1: a call wrapped by retry_on_failure(max_retries=3, delay=1) whose function
\* fails on attempts 1 and 2 and succeeds on attempt 3 returns the successful
\* result, raises nothing, and has slept exactly twice, for 1 and then 2.
C1_ThirdAttemptSucceeds ==
  C1_Case =>
    /\ last.kind = "return"
    /\ last.val.t # "error"
    /\ (last.op = "func" => last.val.t = "int" /\ last.val.v = 42)
    /\ last.funcCalls = 3
    /\ last.sleeps = <<1, 2>>

C1_Witness ==
  /\ C1_Case
  /\ last.op = "func"
  /\ last.kind = "return"
  /\ Len(last.sleeps) = 2

(* ------------------------------- C2 ----------------------------------- *)
\* the first n invocations of the wrapped function fail
AllFail(n) == Len(last.env.rpc) >= n /\ \A i \in 1..n : ~last.env.rpc[i]

\* C2: a call wrapped by retry_on_failure(max_retries=N) invokes the function at
\* most N times and raises only after N invocations; when every attempt fails it
\* raises the error of the N-th attempt after N-1 sleeps (delay*1 .. delay*(N-1)),
\* none of them after the last failure.
C2_RaisesLastErrorAfterN ==
  /\ last.op \in RetriedOps =>
       /\ last.funcCalls <= A.max_retries
       /\ (last.kind = "raise" => last.funcCalls = A.max_retries)
  /\ (last.op = "func" /\ A.max_retries >= 1 /\ AllFail(A.max_retries)) =>
       /\ last.kind = "raise"
       /\ last.val.type = "RpcError"
       /\ last.val.at = A.max_retries
       /\ Len(last.sleeps) = A.max_retries - 1
       /\ \A i \in 1..Len(last.sleeps) : last.sleeps[i] = A.delay * i

C2_Witness ==
  /\ last.op = "func"
  /\ A.max_retries = 4
  /\ AllFail(4)
  /\ last.kind = "raise"
  /\ Len(last.sleeps) = 3

(* ------------------------------- C3 ----------------------------------- *)
GatewayOps == {"get_asset_details", "get_asset_price", "get_user_position",
               "get_current_interest_rate", "get_transaction_receipt"}

\* C3: each of the five gateway operations is retried: when its RPC call fails
\* once and would succeed on the next try, the operation returns the result.
C3_FiveOperationsRetried ==
  (/\ last.op \in GatewayOps
   /\ PreReady
   /\ AnswerableRead
   /\ last.env.rpc = <<FALSE>>)
  => last.kind = "return"

(* ------------------------------- C4 ----------------------------------- *)
ValidatedOps == {"deposit", "borrow", "repay"}

\* the first violated step in the order of the specification:
\* address, asset (non-empty and on the ledger), amount
SpecOrderError ==
  IF ~IsAddress(A.address) THEN "InvalidAddress"
  ELSE IF A.symbol \notin LedgerAssets THEN "AssetNotFound"
  ELSE IF ~PositiveInt(A.amount) THEN "InvalidAmount"
  ELSE "none"

\* the first violated step in the order: address, symbol non-empty, amount,
\* asset on the ledger
CodeOrderError ==
  IF ~IsAddress(A.address) THEN "InvalidAddress"
  ELSE IF A.symbol = "" THEN "AssetNotFound"
  ELSE IF ~PositiveInt(A.amount) THEN "InvalidAmount"
  ELSE IF A.symbol \notin LedgerAssets THEN "AssetNotFound"
  ELSE "none"

\* C4 (as stated): validation reports the earliest violated step in the order
\* ready, address, asset symbol non-empty and on the ledger, amount; an unknown
\* asset with a non-positive amount fails with AssetNotFound.
C4_SpecOrder ==
  (last.op \in ValidatedOps /\ InitOK /\ SpecOrderError # "none")
  => FailedWith(SpecOrderError)

\* C4 (amended): the gateway is made ready first (a failed initialisation ends
\* the build before any ledger call); then the earliest violated step is
\* reported in the order address, symbol non-empty, amount, asset on the ledger.
C4_CodeOrder ==
  last.op \in ValidatedOps =>
    /\ ~InitOK => (last.kind = "raise" /\ last.val.type \in InitKinds /\ last.rpcLog = <<>>)
    /\ (InitOK /\ CodeOrderError # "none") => FailedWith(CodeOrderError)
    /\ (InitOK /\ ~PositiveInt(A.amount) /\ A.symbol = "DOGE" /\ IsAddress(A.address))
         => (FailedWith("InvalidAmount") /\ last.rpcLog = <<>>)

C4_Witness ==
  /\ last.op \in ValidatedOps
  /\ PreReady
  /\ IsAddress(A.address)
  /\ A.symbol = "DOGE"
  /\ A.amount = IntAmt(0)
  /\ FailedWith("InvalidAmount")

(* ------------------------------- C5 ----------------------------------- *)
\* C5: for every operation kind a build with an invalid address, an empty or
\* unknown asset symbol, or a non-positive amount produces no payload and fails
\* with a validation error.
C5_NoPayloadForInvalidIntent ==
  (last.op \in BuildOps /\ PreReady /\ ~ValidIntent)
  => (last.kind = "raise" /\ ErrorClass(last.val) \in ValidationErrors)

(* ------------------------------- C6 ----------------------------------- *)
L == last.env.ledger

\* a borrow that passed the common validation and whose ledger queries answered
BorrowCase == last.op = "borrow" /\ ValidIntent /\ InitOK /\ Answered

\* amount <= deposited * collateral_factor / 10000, without rounding
WithinCollateral == A.amount.v * BpsDenominator <= L.deposited * L.collateral_factor

\* C6: a borrow build that passed the common validation succeeds exactly when
\* amount <= deposited * collateral_factor / 10000; above that bound it fails
\* with InsufficientCollateral and returns no payload.
C6_BorrowWithinCollateral ==
  BorrowCase =>
    /\ ReturnedPayload <=> WithinCollateral
    /\ ~WithinCollateral => FailedWith("InsufficientCollateral")

C6_Witness ==
  /\ BorrowCase
  /\ A.amount.v = 2
  /\ L.deposited = 3
  /\ L.collateral_factor = 7500
  /\ ReturnedPayload

(* ------------------------------- C7 ----------------------------------- *)
TokenOps == {"deposit", "repay"}

TokenCase == last.op \in TokenOps /\ ValidIntent /\ InitOK /\ Answered

BalanceQueried == \E i \in 1..Len(last.rpcLog) : last.rpcLog[i] = "balanceOf"

NativeNeverChecked ==
  A.symbol = NativeSymbol => (~BalanceQueried /\ ~FailedWith("InsufficientBalance"))

\* C7 (as stated): a deposit or repay of a non-native asset fails with
\* InsufficientBalance whenever the token balance is below the amount; for the
\* native asset no balance query is made and the balance never fails the build.
C7_BalanceAlwaysReported ==
  TokenCase =>
    /\ (A.symbol # NativeSymbol /\ L.balance < A.amount.v)
         => FailedWith("InsufficientBalance")
    /\ NativeNeverChecked

\* C7 (amended): such a build returns no payload whenever the balance is below
\* the amount; the error is InsufficientBalance, except for a repay whose amount
\* also exceeds the borrowed amount, which fails with ExcessiveRepay first.
C7_BalanceCheckedAfterDebt ==
  TokenCase =>
    /\ (A.symbol # NativeSymbol /\ L.balance < A.amount.v)
         => FailedWith(IF last.op = "repay" /\ A.amount.v > L.borrowed
                       THEN "ExcessiveRepay" ELSE "InsufficientBalance")
    /\ NativeNeverChecked

C7_Witness ==
  /\ TokenCase
  /\ last.op = "repay"
  /\ A.symbol = "USDC"
  /\ A.amount.v <= L.borrowed
  /\ L.balance < A.amount.v
  /\ FailedWith("InsufficientBalance")

(* ------------------------------- C8 ----------------------------------- *)
RepayCase == last.op = "repay" /\ ValidIntent /\ InitOK /\ Answered

\* C8: a repay build fails with ExcessiveRepay and returns no payload whenever
\* the amount is greater than the borrowed amount of the position; an amount
\* equal to the borrowed amount is not rejected by this check.
C8_RepayBoundedByDebt ==
  RepayCase =>
    /\ A.amount.v > L.borrowed => FailedWith("ExcessiveRepay")
    /\ A.amount.v = L.borrowed => ~FailedWith("ExcessiveRepay")

C8_Witness ==
  /\ RepayCase
  /\ A.amount.v = 3
  /\ L.borrowed = 2
  /\ FailedWith("ExcessiveRepay")

(* ------------------------------- C9 ----------------------------------- *)
BuildReturned == last.op \in BuildOps /\ ReturnedPayload

P == last.val.dict

\* the native value of the claim: the amount for the native asset, 0 otherwise
NativeValue == IF A.symbol = NativeSymbol THEN ToString(A.amount.v) ELSE "0"

\* C9: every payload of deposit, withdraw, borrow and repay carries
\* requiresApproval, true exactly for deposit or repay of a non-native asset,
\* and a native value equal to the amount for the native asset and 0 otherwise.
C9_EveryPayloadFlagged ==
  BuildReturned =>
    /\ "requiresApproval" \in DOMAIN P
    /\ P.requiresApproval = (last.op \in TokenOps /\ A.symbol # NativeSymbol)
    /\ "value" \in DOMAIN P
    /\ P.value = NativeValue

(* ------------------------------- C10 ---------------------------------- *)
PublicOps == (ReadOps \ {"validate_address"}) \cup BuildOps

\* how an operation reports a gateway that is not ready
NotReadyReport ==
  IF last.op \in BuildOps
  THEN FailedWith("NotReady")
  ELSE last.kind = "return" /\ (last.val.t = "None" \/ last.val = EmptyList)

\* C10: a public method invoked on a gateway that is not initialized first
\* attempts the initialisation and, when that leaves the gateway uninitialized,
\* reports not-ready (None or an empty result, NotReady for a build); it does
\* not raise the initialisation error itself.
C10_NotReadyReported ==
  (last.op \in PublicOps /\ ~PreReady) =>
    /\ last.initCalls >= 1
    /\ ~Ready => NotReadyReport
    /\ ~(last.kind = "raise" /\ last.val.type \in InitKinds)

(* ------------------------------- C11 ---------------------------------- *)
\* C11: validate_address never raises, whatever the input and the state of the
\* gateway: it returns a boolean, and false for a malformed address.
C11_ValidateAddressNeverRaises ==
  last.op = "validate_address" =>
    /\ last.kind = "return"
    /\ last.val \in {TrueVal, FalseVal}
    /\ ~IsAddress(A.address) => last.val = FalseVal

(* ------------------------------- C12 ---------------------------------- *)
ScanDone == scan.pc = "done"

ScanReturned == ScanDone /\ scan.result.kind = "return"

\* the ids of the assets the loop went through with the given outcome, in order
WithOutcome(outcome) ==
  LET Is(f) == f.outcome = outcome
  IN SelectSeq(scan.fetched, Is)

AssetIds(rows) == [i \in 1..Len(rows) |-> rows[i].id]

\* C12: an asset without a price-series identifier or with a failed fetch is
\* skipped without a record and the scan goes on: each asset whose fetch
\* succeeds has exactly one record, the returned count is the number of records
\* emitted, and no exception of a single asset escapes the scan (the scan
\* raises only when its commit fails).
C12_SkipsNeverAbort ==
  /\ scan.updated_count = Len(scan.emitted)
  /\ [i \in 1..Len(scan.emitted) |-> scan.emitted[i].asset_id]
       = AssetIds(WithOutcome("ok"))
  /\ \A i \in 1..Len(scan.fetched) :
       assets[scan.fetched[i].id].coingecko_id = "" <=> scan.fetched[i].outcome = "noid"
  /\ ScanDone /\ scan.result.kind = "raise" => scan.commit = "failed"
  /\ ScanReturned =>
       /\ AssetIds(scan.fetched) = AssetIds(QueryActiveAssets(assets, scan.asset_id))
       /\ scan.result.val = Len(scan.emitted)

\* a scan returned 1 after the fetch of one asset failed and the fetch of the
\* other succeeded
C12_Witness ==
  /\ ScanReturned
  /\ scan.result.val = 1
  /\ WithOutcome("error") # <<>>
  /\ WithOutcome("ok") # <<>>

(* ------------------------------- C13 ---------------------------------- *)
ScanRaised == ScanDone /\ scan.result.kind = "raise"

\* C13: the records of a scan are persisted all or nothing. While a scan runs
\* the committed store is the store before the scan; after it the store is the
\* store before the scan followed by every record the scan emitted (commit), or
\* exactly the store before the scan (failure, rollback). The records of
\* earlier scans stay as they were.
C13_AllOrNothing ==
  /\ scan.pc = "loop" => store = scan.before
  /\ ScanReturned => store = scan.before \o scan.emitted /\ session = <<>>
  /\ ScanRaised => store = scan.before /\ session = <<>>

\* a scan that had emitted a record failed at its commit, over a store that
\* holds the records an earlier scan committed
C13_Witness ==
  /\ ScanRaised
  /\ scan.emitted # <<>>
  /\ scan.before # <<>>
  /\ store = scan.before

(* ------------------------------- C14 ---------------------------------- *)
\* C14: within one scan, between any two successive price-history fetches the
\* scan sleeps at least the rate-limit interval, whatever the outcome of the
\* earlier fetch.
C14_DelayBetweenFetches ==
  \A i, j \in 1..Len(scan.events) :
    (i < j /\ scan.events[i] = FetchEvent /\ scan.events[j] = FetchEvent) =>
      \E k \in (i + 1)..(j - 1) :
        /\ scan.events[k].e = "sleep"
        /\ scan.events[k].seconds >= RateLimitDelay

(* ------------------------------- C15 ---------------------------------- *)
\* the health factor as a real number compared with 1.2:
\* deposited * collateral_factor / 10000 / borrowed < 12 / 10
BelowThreshold(deposited, borrowed, collateral_factor) ==
  borrowed > 0 /\ deposited * collateral_factor * 10 < 12 * 10000 * borrowed

Reported(position_id) ==
  \E i \in 1..Len(report.items) : report.items[i].position_id = position_id

\* C15: the health factor is +infinity without a debt and
\* (deposited * collateral_factor / 10000) / borrowed otherwise, and a position
\* is a liquidation candidate exactly when that health factor is strictly
\* below 1.2: never without a debt, never at exactly 1.2.
C15_CandidateIffBelowThreshold ==
  /\ report.t = "list" =>
       \A id \in 1..Len(positions) :
         Reported(id) <=> BelowThreshold(positions[id].deposited_amount,
                                         positions[id].borrowed_amount,
                                         positions[id].asset.collateral_factor)
  /\ (calc.t = "call" /\ calc.op = "_calculate_health_factor") =>
       /\ calc.args.borrowed = 0 <=> calc.result.val = Inf(1)
       /\ float_lt(calc.result.val, LiquidationThreshold)
            <=> BelowThreshold(calc.args.deposited, calc.args.borrowed,
                               calc.args.collateral_factor)

(* ------------------------------- C16 ---------------------------------- *)
\* the positions the report is expected to hold, in the order of the table
RECURSIVE ExpectedCandidates(_)
ExpectedCandidates(id) ==
  IF id = 0 THEN <<>>
  ELSE ExpectedCandidates(id - 1) \o
       (IF /\ positions[id].borrowed_amount > 0
           /\ float_lt(health_factor([id |-> id, row |-> positions[id]]),
                       LiquidationThreshold)
        THEN <<[user_address |-> positions[id].user.address,
                asset_symbol |-> positions[id].asset.symbol,
                health_factor |-> health_factor([id |-> id, row |-> positions[id]]),
                position_id |-> id]>>
        ELSE <<>>)

ReportHoldsCandidates ==
  report.t = "list" =>
    /\ report.items = ExpectedCandidates(Len(positions))
    /\ \A id \in 1..Len(positions) :
         /\ BelowThreshold(positions[id].deposited_amount,
                           positions[id].borrowed_amount,
                           positions[id].asset.collateral_factor) => Reported(id)
         /\ Reported(id) => positions[id].borrowed_amount > 0

RateCall == calc.t = "call" /\ calc.op = "calculate_interest_rate"

\* floor(volatility * 10000 * multiplier / 100) for the volatility p/q
FloorComponent(ratio, multiplier) == (ratio[1] * 100 * multiplier) \div ratio[2]

\* C17: the effective rate is base rate + floor(volatility * 10000 *
\* multiplier / 100) for every base rate, volatility and multiplier, a negative
\* volatility component included.
C17_RateIsBasePlusFloor ==
  (/\ RateCall
   /\ calc.args.volatility \notin NonFinite
   /\ calc.args.volatility_multiplier.t = "int") =>
    calc.result = [kind |-> "return",
                   val |-> calc.args.base_interest_rate
                           + FloorComponent(calc.args.ratio,
                                            calc.args.volatility_multiplier.v)]

(* ------------------------------- C18 ---------------------------------- *)
\* C18: every record a scan emits, committed or still in the session, has an
\* effective interest rate of at least 0, also when the volatility component
\* is negative.
C18_RateNeverNegative ==
  /\ \A i \in 1..Len(store) : store[i].effective_interest_rate >= 0
  /\ \A i \in 1..Len(session) : session[i].effective_interest_rate >= 0

(* ------------------------------- C19 ---------------------------------- *)
\* the computation of the volatility component fails: the multiplier is
\* missing, or the volatility is not a finite number
ComponentFails ==
  \/ calc.args.volatility_multiplier.t = "None"
  \/ calc.args.volatility \in NonFinite

\* C19: calculate_interest_rate never raises, and whenever the computation of
\* the volatility component fails (missing multiplier, non-finite volatility)
\* it returns the base rate of the asset unchanged.
C19_DegradesToBaseRate ==
  RateCall =>
    /\ calc.result.kind = "return"
    /\ ComponentFails => calc.result.val = calc.args.base_interest_rate

\* the rate of an asset with base rate 200 and multiplier 100 was asked for a
\* volatility that is not a number, and 200 came back
C19_Witness ==
  /\ RateCall
  /\ calc.args.volatility = NaN
  /\ calc.args.volatility_multiplier = PyInt(100)
  /\ calc.result = [kind |-> "return", val |-> 200]

(* ------------------------------- C20 ---------------------------------- *)
VolatilityCall == calc.t = "call" /\ calc.op = "calculate_volatility"

\* no series, fewer than 2 prices, a price of zero, or fewer than 2 returns
Degenerate(price_data) ==
  \/ price_data.t = "None"
  \/ Len(price_data.price) < 3
  \/ \E i \in 1..Len(price_data.price) : price_data.price[i] = 0

\* C20: calculate_volatility returns 0 without error for a missing series and
\* for a series of fewer than 2 prices, and also yields 0 for a degenerate
\* series: one with a price of zero or with too few returns for the N-1
\* standard deviation.
C20_DegenerateYieldsZero ==
  VolatilityCall =>
    /\ calc.result.kind = "return"
    /\ Degenerate(calc.args.price_data) => calc.result.val = Zero

(* ------------------------------- C21 ---------------------------------- *)
\* the ledger state allows the operation: enough collateral for a borrow, a
\* debt of at least the amount for a repay, enough tokens for a deposit or
\* repay of a non-native asset
ValidAgainstLedger ==
  /\ last.op = "borrow" => WithinCollateral
  /\ last.op = "repay" => A.amount.v <= L.borrowed
  /\ (last.op \in TokenOps /\ A.symbol # NativeSymbol) => A.amount.v <= L.balance

\* the failure the caller may retry: the error of the RPC call itself
Transient == last.kind = "raise" /\ last.val.type = "RpcError"

\* C21: a ledger RPC failure during a transaction build, in the asset lookup
\* of the validation or in a position or balance query, reaches the caller as
\* a Transient failure, not as one of the Validation errors; and no Validation
\* error is reported for an intent that is valid against the ledger state.
C21_LedgerFailureIsTransient ==
  (last.op \in ValidatedOps /\ ValidIntent /\ InitOK) =>
    /\ ~Answered => Transient /\ ErrorClass(last.val) \notin ValidationErrors
    /\ ValidAgainstLedger =>
         ~(last.kind = "raise" /\ ErrorClass(last.val) \in ValidationErrors)

(* ------------------------------- C22 ---------------------------------- *)
RetriedReads == {"get_asset_details", "get_asset_price", "get_user_position"}

\* a retried read called on a gateway that is not initialized
NestedCase == last.op \in RetriedReads /\ ~PreReady

NestedBound == DefaultMaxRetries * DefaultMaxRetries

InitErrorRaised == last.kind = "raise" /\ last.val.type \in InitKinds

\* C22: the retry wrappers nest. A retried read called on a gateway that is
\* not initialized runs the retried _initialize inside each of its own
\* attempts: at most 3 initialization attempts per attempt of the read, 3 x 3 =
\* 9 in all and never more, and the initialization error is raised to the
\* caller only after the ninth attempt has failed.
C22_NestedRetries ==
  NestedCase =>
    /\ last.funcCalls <= DefaultMaxRetries
    /\ last.initCalls <= DefaultMaxRetries * last.funcCalls
    /\ last.initCalls <= NestedBound
    /\ last.env.initFails < NestedBound =>
         /\ last.initCalls = last.env.initFails + 1
         /\ ~InitErrorRaised
    /\ last.env.initFails >= NestedBound =>
         /\ last.initCalls = NestedBound
         /\ last.funcCalls = DefaultMaxRetries
         /\ InitErrorRaised
         /\ last.val.type = last.env.initKind
         /\ last.val.at = NestedBound

\* get_asset_details on a gateway that cannot be initialized raised the
\* initialization error after 3 attempts of its own and 9 of _initialize
C22_Witness ==
  /\ NestedCase
  /\ last.op = "get_asset_details"
  /\ InitErrorRaised
  /\ last.funcCalls = 3
  /\ last.initCalls = 9
  /\ last.sleeps = <<1, 2, 1, 1, 2, 2, 1, 2>>

(* ------------------------------- C23 ---------------------------------- *)
\* the context the last call started from, with the ledger's borrowed amount
\* of the position replaced by `borrowed`
PreCtxBorrowed(borrowed) ==
  [w3 |-> last.pre.w3, contract |-> last.pre.contract,
   initFails |-> last.env.initFails, initKind |-> last.env.initKind,
   rpc |-> last.env.rpc,
   ledger |-> [last.env.ledger EXCEPT !.borrowed = borrowed],
   sleeps |-> <<>>, initCalls |-> 0, rpcLog |-> <<>>, funcCalls |-> 0]

\* C23: the outcome of a borrow build depends on the amount, the deposited
\* amount and the collateral factor, not on the amount already borrowed: from
\* two ledger states that differ only in the borrowed amount of the position
\* the build ends the same way, with the same payload or the same error.
C23_BorrowIgnoresDebt ==
  last.op = "borrow" =>
    \A borrowed \in 0..MaxAmount :
      LET Same(r) == r.kind = last.kind /\ r.val = last.val
      IN Same(create_borrow_transaction(PreCtxBorrowed(borrowed),
                                        A.address, A.symbol, A.amount))

\* a borrow of 2 was accepted for a position that has deposited 3 at a
\* collateral factor of 7500 and already owes 2: the total of 4 is above 2.25
C23_Witness ==
  /\ BorrowCase
  /\ ReturnedPayload
  /\ A.amount.v = 2
  /\ L.deposited = 3
  /\ L.collateral_factor = 7500
  /\ L.borrowed = 2
  /\ (L.borrowed + A.amount.v) * BpsDenominator > L.deposited * L.collateral_factor

(* ------------------------------- C24 ---------------------------------- *)
JobDone == job.pc = "done"

Took(step) == \E i \in 1..Len(job.steps) : job.steps[i] = step

JobReturned(b) == job.result = [kind |-> "return", val |-> b]

\* the scan of this job returned, after its commit
ScanCommitted == ScanReturned /\ scan.commit = "ok" /\ session = <<>>

\* C24: the job never lets an exception escape and orders its steps: the
\* liquidation check runs only after the scan has committed; when the scan or
\* the construction of the services fails the job returns False without the
\* liquidation check; when the scan succeeds the job returns True, whatever the
\* liquidation check finds and even when it fails.
C24_JobOrdersStepsAndReturns ==
  /\ JobDone => job.result.kind = "return"
  /\ Took("liquidation") => Took("scanned") /\ ScanCommitted
  /\ (JobDone /\ (Took("scan_failed") \/ ~Took("scan"))) =>
       JobReturned(FALSE) /\ ~Took("liquidation")
  /\ (JobDone /\ Took("scanned")) => JobReturned(TRUE)

====
